---- MODULE Spec2Model ----
(***************************************************************************)
(* Model of import_webflow.py: the import run (__main__), the file moves   *)
(* of WebflowImporter and the rewrite passes of update_html.               *)
(*                                                                         *)
(* Text is modelled as a sequence of tokens (TLA+ strings are atomic).     *)
(* The token "images/" is the only token holding a "/" after "images",     *)
(* " " the only token holding a space and "," the only one holding a       *)
(* comma, so prefix tests and the srcset regular expression act on tokens  *)
(* exactly as they act on the characters.                                  *)
(*                                                                         *)
(* A parsed document (BeautifulSoup) is [tags, root]: tags is the sequence *)
(* of elements [name, attrs, contents], root the contents of the soup      *)
(* object. A contents item is a tag reference or a text node.              *)
(***************************************************************************)
EXTENDS Integers, Sequences, FiniteSets, TLC

VARIABLES
    target_app,    \* sys.argv[1]
    pc,            \* position in __main__ / in update_html
    targetKind,    \* what sys.argv[1] names on disk: "missing", "file", "dir"
    archive,       \* the export archive: whether it unpacks, and its contents
    platform,      \* os.rename semantics: "posix" or "nt"
    work,          \* working_folder: category -> "absent" or its entries
    workHtml,      \* top-level files of working_folder: name -> document
    dest,          \* <app>/static/<app>/<category>/: category -> entries
    static_files,  \* WebflowImporter.static_files
    html_paths,    \* WebflowImporter.html_paths
    templates,     \* <app>/templates/: name -> document on disk
    k,             \* update_htmls: index of the next path of html_paths
    fsops,         \* filesystem operations performed so far
    soup,          \* update_html: the parsed tree and the raised exception
    doc0,          \* the document as first given to update_html
    runs,          \* completed runs of update_html on the document
    done,          \* rewrite passes applied so far
    exc,           \* the exception that ended the run, "" for none
    reordered      \* whether a pass was applied out of the order of the code

vars == <<target_app, pc, targetKind, archive, platform, work, workHtml, dest,
          static_files, html_paths, templates, k, fsops, soup, doc0, runs, done,
          exc, reordered>>

----------------------------------------------------------------------------
(* Bounds *)

MaxChildren == 2   \* children of a data-for element
MaxForms == 2      \* form elements of a document
MaxRuns == 3       \* runs of update_html on one document
MaxCandidates == 2 \* image candidates of a srcset value
MaxEntries == 2    \* names of the entries of a category directory
MaxPages == 2      \* html files of an export

----------------------------------------------------------------------------
(* Text *)

StaticOpen == "{% static '"
StaticClose == "' %}"
LoadStatic == "{% load static %}"
CsrfToken == "{% csrf_token %}"
EndFor == "{% endfor %}"
make_forms_async == "make_forms_async"

\* str.startswith(prefix) on a token sequence.
TokenStartsWith(tok, prefix) ==
    CASE prefix = "css" -> tok \in {"css/"}
      [] prefix = "images" -> tok \in {"images/"}
      [] prefix = "js" -> tok \in {"js/"}
      [] prefix = "documents" -> tok \in {"documents/"}
      [] OTHER -> FALSE

StartsWith(value, prefix) ==
    Len(value) > 0 /\ TokenStartsWith(value[1], prefix)

\* Mutant: the reference leaves out the app's directory.
StaticRefNoApp(app, value) == <<StaticOpen>> \o value \o <<StaticClose>>

\* f"{{% static '{target_app}/{value}' %}}"
StaticRef(app, value) == <<StaticOpen, app, "/">> \o value \o <<StaticClose>>

\* Length of the longest run of non-space tokens of s starting at i: [^ ]+
RECURSIVE NonSpaceRun(_, _)
NonSpaceRun(s, i) ==
    IF i > Len(s) \/ s[i] = " " THEN 0 ELSE 1 + NonSpaceRun(s, i + 1)

\* re.sub(r"images/([^ ]+)", rf"{{% static '{app}/images/\g<1>' %}}", s),
\* scanning s from token i: leftmost, non-overlapping, greedy matches.
RECURSIVE ReSubFrom(_, _, _)
ReSubFrom(app, s, i) ==
    IF i > Len(s) THEN <<>>
    ELSE LET n == NonSpaceRun(s, i + 1) IN
         IF s[i] = "images/" /\ n > 0
         THEN <<StaticOpen, app, "/", "images/">>
                  \o SubSeq(s, i + 1, i + n) \o <<StaticClose>>
                  \o ReSubFrom(app, s, i + n + 1)
         ELSE <<s[i]>> \o ReSubFrom(app, s, i + 1)

ReSubSrcset(app, s) == ReSubFrom(app, s, 1)

----------------------------------------------------------------------------
(* The parse tree *)

TagItem(id) == [kind |-> "tag", id |-> id, s |-> <<>>]
TextItem(s) == [kind |-> "text", id |-> 0, s |-> s]

Has(tag, a) == a \in DOMAIN tag.attrs

\* tag[a] = v
SetAttr(tag, a, v) ==
    [tag EXCEPT !.attrs = [x \in DOMAIN tag.attrs \cup {a} |->
                               IF x = a THEN v ELSE tag.attrs[x]]]

\* Tags below a contents list, in document order.
RECURSIVE Walk(_, _)
Walk(doc, items) ==
    IF items = <<>> THEN <<>>
    ELSE LET h == Head(items) IN
         (IF h.kind = "tag"
          THEN <<h.id>> \o Walk(doc, doc.tags[h.id].contents)
          ELSE <<>>) \o Walk(doc, Tail(items))

\* soup.find_all(names): the ids of the matching tags, in document order.
FindAll(doc, names) ==
    LET IsNamed(i) == doc.tags[i].name \in names
    IN SelectSeq(Walk(doc, doc.root), IsNamed)

\* The state of a run of update_html: the tree, and the exception raised.
Raise(st, e) == IF st.err = "" THEN [st EXCEPT !.err = e] ELSE st
PutTag(st, id, tag) == [st EXCEPT !.doc.tags[id] = tag]

\* list.insert(position, x) of Python.
ListInsert(c, position, x) ==
    LET n == Len(c)
        p == IF position < 0
             THEN (IF n + position < 0 THEN 0 ELSE n + position)
             ELSE (IF position > n THEN n ELSE position)
    IN SubSeq(c, 1, p) \o <<x>> \o SubSeq(c, p + 1, n)

\* Tag.insert(position, new_child) of bs4, for a new string: it reads
\* contents[position - 1] (an IndexError when that index is out of range)
\* before contents.insert(position, new_child).
InsertRaises(c, position) ==
    LET p == IF position > Len(c) THEN Len(c) ELSE position
    IN p # 0 /\ (p - 1 >= Len(c) \/ p - 1 < 0 - Len(c))

Insert(st, id, position, text) ==
    IF st.err # "" THEN st
    ELSE IF InsertRaises(st.doc.tags[id].contents, position)
    THEN Raise(st, "IndexError")
    ELSE [st EXCEPT !.doc.tags[id].contents =
                        ListInsert(@, position, TextItem(text))]

\* Tag.append(x)
AppendItem(st, id, item) ==
    [st EXCEPT !.doc.tags[id].contents = Append(@, item)]

----------------------------------------------------------------------------
(* update_html: the rewrite passes *)

\* Update the links element: the body of the loop over find_all('link').
LinkStep(st, id, app) ==
    LET tag == st.doc.tags[id] IN
    IF ~Has(tag, "href") THEN Raise(st, "AttributeError")
    ELSE LET t1 == IF StartsWith(tag.attrs["href"], "css")
                   THEN SetAttr(tag, "href", StaticRef(app, tag.attrs["href"]))
                   ELSE tag
             t2 == IF StartsWith(t1.attrs["href"], "images")
                   THEN SetAttr(t1, "href", StaticRef(app, t1.attrs["href"]))
                   ELSE t1
         IN PutTag(st, id, t2)

\* Update img elements: the body of the loop over find_all('img').
ImgStep(st, id, app) ==
    LET tag == st.doc.tags[id] IN
    IF ~Has(tag, "src") THEN Raise(st, "AttributeError")
    ELSE LET t1 == IF StartsWith(tag.attrs["src"], "images")
                   THEN SetAttr(tag, "src", StaticRef(app, tag.attrs["src"]))
                   ELSE tag
             srcset == IF Has(t1, "srcset") THEN t1.attrs["srcset"] ELSE <<>>
             t2 == IF StartsWith(srcset, "images")
                   THEN SetAttr(t1, "srcset", ReSubSrcset(app, srcset))
                   ELSE t1
         IN PutTag(st, id, t2)

\* Mutant: src is used without the test that the script has one.
ScriptStepNoGuard(st, id, app) ==
    LET tag == st.doc.tags[id] IN
    IF ~Has(tag, "src") THEN Raise(st, "AttributeError")
    ELSE IF StartsWith(tag.attrs["src"], "js")
    THEN PutTag(st, id, SetAttr(tag, "src", StaticRef(app, tag.attrs["src"])))
    ELSE st

\* Update js elements: the body of the loop over find_all('script').
ScriptStep(st, id, app) ==
    LET tag == st.doc.tags[id] IN
    IF Has(tag, "src") /\ StartsWith(tag.attrs["src"], "js")
    THEN PutTag(st, id, SetAttr(tag, "src", StaticRef(app, tag.attrs["src"])))
    ELSE st

\* Update the lottie animation elements.
LottieStep(st, id, app) ==
    LET tag == st.doc.tags[id] IN
    IF Has(tag, "data-src") /\ StartsWith(tag.attrs["data-src"], "documents")
    THEN PutTag(st, id,
                SetAttr(tag, "data-src", StaticRef(app, tag.attrs["data-src"])))
    ELSE st

\* len(for_loop_data.split(" ")) > 1
HasSpace(value) == \E i \in 1..Len(value) : value[i] = " "

ForTag(value) == <<"{% for ">> \o value \o <<" %}">>
Variable(value) == <<"{{ ">> \o value \o <<" }}">>

\* Convert collection lists to for loops: the body of the loop over the
\* elements with a data-for attribute.
DataForStep(st, id, app) ==
    LET tag == st.doc.tags[id]
        for_loop_data == tag.attrs["data-for"]
    IN IF HasSpace(for_loop_data)
       THEN Insert(Insert(st, id, 0, ForTag(for_loop_data)), id, -1, <<EndFor>>)
       ELSE IF tag.name = "img"
       THEN PutTag(st, id, SetAttr(tag, "src", Variable(for_loop_data)))
       ELSE Insert(st, id, 0, Variable(for_loop_data))

\* Mutant: the marker is appended, not inserted first.
CsrfStepAppend(st, id, app) ==
    Insert(st, id, Len(st.doc.tags[id].contents), <<CsrfToken>>)

\* Forms: the body of the loop over find_all('form').
CsrfStep(st, id, app) == Insert(st, id, 0, <<CsrfToken>>)

Step(pass, st, id, app) ==
    CASE pass = "link" -> LinkStep(st, id, app)
      [] pass = "img" -> ImgStep(st, id, app)
      [] pass = "script" -> ScriptStep(st, id, app)
      [] pass = "lottie" -> LottieStep(st, id, app)
      [] pass = "datafor" -> DataForStep(st, id, app)
      [] pass = "csrf" -> CsrfStep(st, id, app)

\* for tag in <find_all result>: an exception ends the loop.
RECURSIVE Loop(_, _, _, _)
Loop(pass, st, ids, app) ==
    IF ids = <<>> \/ st.err # "" THEN st
    ELSE Loop(pass, Step(pass, st, Head(ids), app), Tail(ids), app)

\* The tags a pass loops over, found before its loop starts.
Selected(pass, doc) ==
    CASE pass = "link" -> FindAll(doc, {"link"})
      [] pass = "img" -> FindAll(doc, {"img"})
      [] pass = "script" -> FindAll(doc, {"script"})
      [] pass = "lottie" ->
           LET IsLottie(i) == /\ Has(doc.tags[i], "data-animation-type")
                              /\ doc.tags[i].attrs["data-animation-type"] = <<"lottie">>
           IN SelectSeq(FindAll(doc, {"div"}), IsLottie)
      [] pass = "datafor" ->
           LET HasFor(i) == Has(doc.tags[i], "data-for")
           IN SelectSeq(FindAll(doc, {"div", "img", "li", "ul"}), HasFor)
      [] pass = "csrf" -> FindAll(doc, {"form"})

\* soup.find(name): the first such tag in document order, 0 for None.
Find(doc, name) ==
    LET found == FindAll(doc, {name})
    IN IF found = <<>> THEN 0 ELSE Head(found)

\* Mutant: the directive is inserted only where there is none yet.
HtmlPassOnce(st) ==
    LET html_tag == Find(st.doc, "html") IN
    IF html_tag = 0 THEN Raise(st, "AttributeError")
    ELSE IF \E i \in 1..Len(st.doc.tags[html_tag].contents) :
                \E j \in 1..Len(st.doc.tags[html_tag].contents[i].s) :
                    st.doc.tags[html_tag].contents[i].s[j] = LoadStatic
    THEN st
    ELSE Insert(st, html_tag, 0, <<LoadStatic>>)

\* Insert the django static template tag.
HtmlPass(st) ==
    LET html_tag == Find(st.doc, "html") IN
    IF html_tag = 0 THEN Raise(st, "AttributeError")
    ELSE Insert(st, html_tag, 0, <<LoadStatic>>)

\* Forms: Make all forms async.
AsyncPass(st) ==
    LET script_tag == Len(st.doc.tags) + 1
        st1 == [st EXCEPT !.doc.tags = Append(@,
                   [name |-> "script", attrs |-> <<>>,
                    contents |-> <<TextItem(<<make_forms_async>>)>>])]
        body == Find(st.doc, "body")
    IN IF body = 0 THEN Raise(st, "AttributeError")
       ELSE AppendItem(st1, body, TagItem(script_tag))

LoopPasses == {"link", "img", "script", "lottie", "datafor", "csrf"}

RECURSIVE ApplyPass(_, _, _)
ApplyPass(pass, st, app) ==
    IF st.err # "" THEN st
    ELSE CASE pass \in LoopPasses -> Loop(pass, st, Selected(pass, st.doc), app)
           [] pass = "html" -> HtmlPass(st)
           [] pass = "async" -> AsyncPass(st)
           [] pass = "form" -> ApplyPass("async", ApplyPass("csrf", st, app), app)

\* The order of the passes in update_html.
PassOrder == <<"link", "img", "script", "lottie", "datafor", "html", "csrf", "async">>

RECURSIVE ApplyPasses(_, _, _)
ApplyPasses(passes, st, app) ==
    IF passes = <<>> THEN st
    ELSE ApplyPasses(Tail(passes), ApplyPass(Head(passes), st, app), app)

----------------------------------------------------------------------------
(* Saving and reading a document *)

\* Tags that html.parser gives no contents.
VoidTags == {"link", "img", "input"}

\* str.strip() of a text node: "\n" stands for a run of whitespace.
RECURSIVE StripLeft(_)
StripLeft(s) ==
    IF s # <<>> /\ Head(s) = "\n" THEN StripLeft(Tail(s)) ELSE s

RECURSIVE StripRight(_)
StripRight(s) ==
    IF s # <<>> /\ s[Len(s)] = "\n" THEN StripRight(SubSeq(s, 1, Len(s) - 1))
    ELSE s

Strip(s) == StripRight(StripLeft(s))

\* The contents html.parser reads back from what prettify writes for a
\* contents list: prettify strips every string, drops the empty ones and puts
\* each string and each tag on a line of its own. acc is the text read since
\* the last tag.
RECURSIVE Layout(_, _)
Layout(items, acc) ==
    IF items = <<>> THEN <<TextItem(acc)>>
    ELSE LET h == Head(items) IN
         IF h.kind = "tag"
         THEN <<TextItem(acc), h>> \o Layout(Tail(items), <<"\n">>)
         ELSE LET text == Strip(h.s) IN
              Layout(Tail(items),
                     IF text = <<>> THEN acc ELSE acc \o text \o <<"\n">>)

\* str(soup.prettify(...)) written to html_path, as the tree BeautifulSoup
\* parses from that file.
Prettify(doc) ==
    [tags |-> [i \in 1..Len(doc.tags) |->
                  IF doc.tags[i].name \in VoidTags /\ doc.tags[i].contents = <<>>
                  THEN doc.tags[i]
                  ELSE [doc.tags[i] EXCEPT !.contents = Layout(@, <<"\n">>)]],
     root |-> Tail(Layout(doc.root, <<"\n">>))]

\* update_html(html_path, target_app) on the file's document: the document
\* written back, or the exception raised before anything is written.
UpdateHtml(doc, app) ==
    LET st == ApplyPasses(PassOrder, [err |-> "", doc |-> doc], app)
    IN IF st.err # "" THEN [err |-> st.err, doc |-> doc]
       ELSE [err |-> "", doc |-> Prettify(st.doc)]

----------------------------------------------------------------------------
(* Input documents *)

Node(name, attrs, kids) ==
    [kind |-> "tag", name |-> name, attrs |-> attrs, kids |-> kids, s |-> <<>>]
Text(s) ==
    [kind |-> "text", name |-> "", attrs |-> <<>>, kids |-> <<>>, s |-> s]

\* The attributes {a: v}, and attrs with a: v added.
With(attrs, a, v) ==
    [x \in DOMAIN attrs \cup {a} |-> IF x = a THEN v ELSE attrs[x]]
Attr(a, v) == With(<<>>, a, v)

\* The tree BeautifulSoup builds: tags numbered in document order.
RECURSIVE AddKids(_, _)
AddKids(tags, kids) ==
    IF kids = <<>> THEN [tags |-> tags, items |-> <<>>]
    ELSE LET h == Head(kids) IN
         IF h.kind = "text"
         THEN LET r == AddKids(tags, Tail(kids))
              IN [tags |-> r.tags, items |-> <<TextItem(h.s)>> \o r.items]
         ELSE LET id == Len(tags) + 1
                  sub == AddKids(Append(tags, [name |-> h.name, attrs |-> h.attrs,
                                               contents |-> <<>>]), h.kids)
                  r == AddKids([sub.tags EXCEPT ![id].contents = sub.items],
                               Tail(kids))
              IN [tags |-> r.tags, items |-> <<TagItem(id)>> \o r.items]

Parse(kids) ==
    LET r == AddKids(<<>>, kids) IN [tags |-> r.tags, root |-> r.items]

Opt(cond, x) == IF cond THEN <<x>> ELSE <<>>

SeqsUpTo(S, n) == UNION {[1..m -> S] : m \in 0..n}

RECURSIVE Flatten(_)
Flatten(ss) == IF ss = <<>> THEN <<>> ELSE Head(ss) \o Flatten(Tail(ss))

\* A srcset value: image candidates [kind, descriptor], each but the last
\* followed by its separator ("," or ", ").
Candidates == [kind : {"images", "ext"}, descriptor : BOOLEAN, sep : {",", ", "}]

CandidateUrl(c, i) ==
    <<IF c.kind = "images" THEN "images/" ELSE "https://x/",
      IF i = 1 THEN "a.jpg" ELSE "b.jpg">>

CandidateText(c, i, last) ==
    CandidateUrl(c, i)
        \o (IF c.descriptor THEN <<" ", "1x">> ELSE <<>>)
        \o (IF last THEN <<>> ELSE IF c.sep = "," THEN <<",">> ELSE <<",", " ">>)

SrcsetText(cs) ==
    Flatten([i \in 1..Len(cs) |-> CandidateText(cs[i], i, i = Len(cs))])

SrcsetLists ==
    {cs \in SeqsUpTo(Candidates, MaxCandidates) :
        Len(cs) > 0 /\ cs[Len(cs)].sep = ","}

LoopData == <<"item", " ", "in", " ", "items">>
FieldData == <<"item.name">>

DataFor(kind) ==
    IF kind = "loop" THEN Attr("data-for", LoopData)
    ELSE IF kind = "var" THEN Attr("data-for", FieldData)
    ELSE <<>>

Url(kind, dir, name) ==
    IF kind = dir THEN <<dir \o "/", name>> ELSE <<"https://x/", name>>

AttrIf(attrs, cond, a, v) == IF cond THEN With(attrs, a, v) ELSE attrs

\* The document of parameters p: a page of the shape Webflow exports,
\*   html > head > (link, script), body > (img, lottie div, data-for div, forms)
BuildDoc(p) ==
    LET link == Node("link",
                     AttrIf(Attr("rel", <<"stylesheet">>), p.link # "nohref",
                            "href", Url(p.link, IF p.link = "images" THEN "images"
                                                ELSE "css", "a.css")),
                     <<>>)
        script == Node("script",
                       AttrIf(<<>>, p.script # "inline", "src",
                              Url(p.script, "js", "w.js")),
                       <<>>)
        img == Node("img",
                    AttrIf(AttrIf(DataFor(p.imgfor), p.img # "nosrc", "src",
                                  Url(p.img, "images", "b.png")),
                           p.srcset # <<>>, "srcset", p.srcset),
                    <<>>)
        lottie == Node("div",
                       AttrIf(Attr("data-animation-type", <<"lottie">>),
                              p.lottie # "nosrc", "data-src",
                              Url(p.lottie, "documents", "l.json")),
                       <<>>)
        child(c) == IF c = "p" THEN Node("p", <<>>, <<Text(<<"text">>)>>)
                    ELSE Text(<<"\n">>)
        div == Node("div", DataFor(p.div),
                    [i \in 1..Len(p.children) |-> child(p.children[i])])
        form == Node("form", Attr("action", <<"/send">>),
                     <<Node("input", <<>>, <<>>)>>)
        head == Node("head", <<>>,
                     Opt(p.link # "none", link) \o Opt(p.script # "none", script))
        inbody == Opt(p.img # "none", img) \o Opt(p.lottie # "none", lottie)
                     \o Opt(p.div # "none", div) \o [i \in 1..p.forms |-> form]
        inhtml == <<head>> \o (IF p.body THEN <<Node("body", <<>>, inbody)>>
                               ELSE inbody)
    IN Parse(IF p.html THEN <<Node("html", <<>>, inhtml)>> ELSE inhtml)

Plain ==
    [html |-> TRUE, body |-> TRUE, link |-> "none", img |-> "none",
     imgfor |-> "none", srcset |-> <<>>, script |-> "none", lottie |-> "none",
     div |-> "none", children |-> <<>>, forms |-> 0]

\* Pages that differ in their attributes.
AttributeParams ==
    {[Plain EXCEPT !.link = l, !.img = i, !.imgfor = f, !.script = s, !.lottie = t] :
        l \in {"none", "css", "images", "ext", "nohref"},
        i \in {"none", "images", "ext", "nosrc"},
        f \in {"none", "var", "loop"},
        s \in {"none", "js", "ext", "inline"},
        t \in {"none", "documents", "ext"}}

\* Pages that differ in their structure.
StructureParams ==
    {[Plain EXCEPT !.link = "css", !.html = h, !.body = b, !.div = d,
                   !.children = c, !.forms = n] :
        h \in BOOLEAN, b \in BOOLEAN, d \in {"none", "loop", "var"},
        c \in SeqsUpTo({"p", "ws"}, MaxChildren), n \in 0..MaxForms}

\* Pages with a responsive image.
SrcsetParams ==
    {[Plain EXCEPT !.img = "images", !.srcset = SrcsetText(cs), !.forms = 1] :
        cs \in SrcsetLists}

HtmlParams ==
    {p \in AttributeParams \cup StructureParams \cup SrcsetParams :
        /\ p.img = "none" => p.imgfor = "none"
        /\ p.div = "none" => p.children = <<>>}

HtmlDocs == {BuildDoc(p) : p \in HtmlParams}

----------------------------------------------------------------------------
(* update_html, pass by pass, on one document *)

TargetApps == {"web"}
Page == "index.html"
NoSoup == [err |-> "", doc |-> [tags |-> <<>>, root |-> <<>>]]

\* The variables of the import run, while only update_html is looked at.
NoRun ==
    /\ targetKind = "dir"
    /\ archive = <<>>
    /\ platform = "posix"
    /\ work = <<>>
    /\ workHtml = <<>>
    /\ dest = <<>>
    /\ static_files = <<>>
    /\ fsops = {}
    /\ k = 1
    /\ exc = ""

runVars == <<targetKind, archive, platform, work, workHtml, dest, static_files,
             fsops, k, exc>>

\* The passes of update_html, form augmentation (csrf and async) as one.
Passes == {"link", "img", "script", "lottie", "datafor", "html", "form"}
CodeOrder == <<"link", "img", "script", "lottie", "datafor", "html", "form">>

InitHtml ==
    /\ NoRun
    /\ target_app \in TargetApps
    /\ doc0 \in HtmlDocs
    /\ templates = [f \in {Page} |-> doc0]
    /\ html_paths = <<Page>>
    /\ pc = "uh_open"
    /\ soup = NoSoup
    /\ runs = 0
    /\ done = {}
    /\ reordered = FALSE

\* with open(html_path, 'r') as f: soup = BeautifulSoup(f, 'html.parser')
Open ==
    /\ pc = "uh_open"
    /\ soup' = [err |-> "", doc |-> templates[Page]]
    /\ done' = {}
    /\ pc' = "uh_pass"
    /\ UNCHANGED <<reordered, target_app, runVars, html_paths, templates, doc0, runs>>

\* The next rewrite pass, in the order of the code.
RewritePass ==
    /\ pc = "uh_pass"
    /\ Cardinality(done) < Len(PassOrder)
    /\ LET pass == PassOrder[Cardinality(done) + 1]
           st == ApplyPass(pass, soup, target_app)
       IN /\ soup' = st
          /\ done' = done \cup {pass}
          /\ pc' = IF st.err # "" THEN "uh_raised"
                   ELSE IF Cardinality(done) + 1 = Len(PassOrder) THEN "uh_save"
                   ELSE "uh_pass"
    /\ UNCHANGED <<reordered, target_app, runVars, html_paths, templates, doc0, runs>>

\* Write the updated html file.
Save ==
    /\ pc = "uh_save"
    /\ templates' = [templates EXCEPT ![Page] = Prettify(soup.doc)]
    /\ runs' = runs + 1
    /\ pc' = "uh_done"
    /\ UNCHANGED <<reordered, target_app, runVars, html_paths, soup, doc0, done>>

\* update_html is called on the rewritten file again.
RunAgain ==
    /\ pc = "uh_done"
    /\ runs < MaxRuns
    /\ pc' = "uh_open"
    /\ UNCHANGED <<reordered, target_app, runVars, html_paths, templates, soup, doc0, runs, done>>

NextHtml == Open \/ RewritePass \/ Save \/ RunAgain

SpecHtml == InitHtml /\ [][NextHtml]_vars

----------------------------------------------------------------------------
(* update_html with its passes in another order *)

InitOrder ==
    /\ NoRun
    /\ target_app \in TargetApps
    /\ doc0 \in HtmlDocs
    /\ templates = [f \in {Page} |-> doc0]
    /\ html_paths = <<Page>>
    /\ pc = "ro_pass"
    /\ soup = [err |-> "", doc |-> doc0]
    /\ runs = 0
    /\ done = {}
    /\ reordered = FALSE

\* Some pass not yet applied is applied next.
ReorderedPass ==
    /\ pc = "ro_pass"
    /\ \E pass \in Passes \ done :
          LET st == ApplyPass(pass, soup, target_app)
          IN /\ soup' = st
             /\ done' = done \cup {pass}
             /\ reordered' = (reordered \/ pass # CodeOrder[Cardinality(done) + 1])
             /\ pc' = IF st.err # "" THEN "ro_raised"
                      ELSE IF done' = Passes THEN "ro_done"
                      ELSE "ro_pass"
    /\ UNCHANGED <<target_app, runVars, html_paths, templates, doc0, runs>>

SpecOrder == InitOrder /\ [][ReorderedPass]_vars

----------------------------------------------------------------------------
(* Claims about update_html *)

\* The first run of update_html on the document has returned.
AfterFirstRun == pc = "uh_done" /\ runs = 1

OrigTags == 1..Len(doc0.tags)
Before(i) == doc0.tags[i]
After(i) == soup.doc.tags[i]

\* {% static '<app>/<value>' %}
Wrapped(value) == <<"{% static '", target_app, "/">> \o value \o <<"' %}">>

IsStaticLink(t) ==
    /\ t.name = "link" /\ Has(t, "href")
    /\ t.attrs["href"] # <<>> /\ t.attrs["href"][1] \in {"css/", "images/"}
IsStaticImg(t) ==
    /\ t.name = "img" /\ Has(t, "src")
    /\ t.attrs["src"] # <<>> /\ t.attrs["src"][1] = "images/"
IsStaticScript(t) ==
    /\ t.name = "script" /\ Has(t, "src")
    /\ t.attrs["src"] # <<>> /\ t.attrs["src"][1] = "js/"
HasFieldDataFor(t) ==
    Has(t, "data-for") /\ \A i \in 1..Len(t.attrs["data-for"]) : t.attrs["data-for"][i] # " "
HasLoopDataFor(t) ==
    Has(t, "data-for") /\ \E i \in 1..Len(t.attrs["data-for"]) : t.attrs["data-for"][i] = " "

\* C1 as stated: after update_html every link href beginning with css or
\* images, every img src beginning with images and every script src beginning
\* with js is exactly one static reference wrapping the original value.
C1_AllWrappedOnce ==
    AfterFirstRun =>
        \A i \in OrigTags :
            /\ IsStaticLink(Before(i)) =>
                   After(i).attrs["href"] = Wrapped(Before(i).attrs["href"])
            /\ IsStaticImg(Before(i)) =>
                   After(i).attrs["src"] = Wrapped(Before(i).attrs["src"])
            /\ IsStaticScript(Before(i)) =>
                   After(i).attrs["src"] = Wrapped(Before(i).attrs["src"])

\* C1 amended: the same, but for img elements only those that carry no
\* data-for attribute without a space (the data-for pass overwrites the src of
\* those with a variable interpolation).
C1_WrappedOnce ==
    AfterFirstRun =>
        \A i \in OrigTags :
            /\ IsStaticLink(Before(i)) =>
                   After(i).attrs["href"] = Wrapped(Before(i).attrs["href"])
            /\ IsStaticImg(Before(i)) /\ ~HasFieldDataFor(Before(i)) =>
                   After(i).attrs["src"] = Wrapped(Before(i).attrs["src"])
            /\ IsStaticScript(Before(i)) =>
                   After(i).attrs["src"] = Wrapped(Before(i).attrs["src"])

C1_Witness ==
    /\ AfterFirstRun
    /\ \E i \in OrigTags : IsStaticLink(Before(i)) /\ Before(i).attrs["href"][1] = "css/"
    /\ \E i \in OrigTags : IsStaticImg(Before(i)) /\ ~HasFieldDataFor(Before(i))
    /\ \E i \in OrigTags : IsStaticScript(Before(i))

\* C3: after update_html the children of an element whose data-for value
\* holds a space are the loop-open marker, then the original children in
\* their order, then the loop-close marker as the last child.
C3_LoopWrapsChildren ==
    AfterFirstRun =>
        \A i \in OrigTags :
            HasLoopDataFor(Before(i)) =>
                After(i).contents =
                    <<TextItem(<<"{% for ">> \o Before(i).attrs["data-for"] \o <<" %}">>)>>
                        \o Before(i).contents
                        \o <<TextItem(<<"{% endfor %}">>)>>

C3_Witness ==
    /\ AfterFirstRun
    /\ \E i \in OrigTags : HasLoopDataFor(Before(i)) /\ Len(Before(i).contents) = 2

\* The srcset value with every image candidate images/<path> (a path ends at
\* a space or a comma) replaced by its own static reference.
RECURSIVE PathRun(_, _)
PathRun(s, i) ==
    IF i > Len(s) \/ s[i] \in {" ", ","} THEN 0 ELSE 1 + PathRun(s, i + 1)

RECURSIVE PerCandidate(_, _)
PerCandidate(s, i) ==
    IF i > Len(s) THEN <<>>
    ELSE LET n == PathRun(s, i + 1) IN
         IF s[i] = "images/" /\ n > 0
         THEN Wrapped(SubSeq(s, i, i + n)) \o PerCandidate(s, i + n + 1)
         ELSE <<s[i]>> \o PerCandidate(s, i + 1)

IsStaticSrcset(t) ==
    /\ t.name = "img" /\ Has(t, "srcset")
    /\ t.attrs["srcset"] # <<>> /\ t.attrs["srcset"][1] = "images/"

\* C4: after update_html a srcset beginning with images has each
\* images/<path> candidate replaced by its own static reference, separators
\* and descriptors kept verbatim.
C4_SrcsetPerCandidate ==
    AfterFirstRun =>
        \A i \in OrigTags :
            IsStaticSrcset(Before(i)) =>
                After(i).attrs["srcset"] = PerCandidate(Before(i).attrs["srcset"], 1)

C4_Witness ==
    /\ AfterFirstRun
    /\ \E i \in OrigTags :
          /\ IsStaticSrcset(Before(i))
          /\ Before(i).attrs["srcset"] =
                 <<"images/", "a.jpg", " ", "1x", ",", " ", "images/", "b.jpg", " ", "1x">>
          /\ After(i).attrs["srcset"] = PerCandidate(Before(i).attrs["srcset"], 1)

\* Occurrences of a marker in the strings that are children of a tag.
RECURSIVE CountIn(_, _)
CountIn(s, marker) ==
    IF s = <<>> THEN 0
    ELSE (IF Head(s) = marker THEN 1 ELSE 0) + CountIn(Tail(s), marker)

RECURSIVE Markers(_, _)
Markers(items, marker) ==
    IF items = <<>> THEN 0
    ELSE (IF Head(items).kind = "text" THEN CountIn(Head(items).s, marker) ELSE 0)
             + Markers(Tail(items), marker)

\* The async form-submission scripts among the children of a tag.
RECURSIVE AsyncScripts(_, _)
AsyncScripts(doc, items) ==
    IF items = <<>> THEN 0
    ELSE (IF /\ Head(items).kind = "tag"
             /\ doc.tags[Head(items).id].name = "script"
             /\ Markers(doc.tags[Head(items).id].contents, "make_forms_async") = 1
          THEN 1 ELSE 0) + AsyncScripts(doc, Tail(items))

TagsNamed(doc, name) == {i \in 1..Len(doc.tags) : doc.tags[i].name = name}

\* The file holds n of each inserted marker.
HoldsMarkers(doc, n) ==
    /\ \A i \in TagsNamed(doc, "html") :
           Markers(doc.tags[i].contents, "{% load static %}") = n
    /\ \A i \in TagsNamed(doc, "form") :
           Markers(doc.tags[i].contents, "{% csrf_token %}") = n
    /\ \A i \in TagsNamed(doc, "body") :
           AsyncScripts(doc, doc.tags[i].contents) = n

\* C8: update_html is not idempotent: after n runs on the same file the html
\* element holds n load-static directives, every form n csrf markers and the
\* body n copies of the async script.
C8_NotIdempotent ==
    pc = "uh_done" => HoldsMarkers(templates[Page], runs)

C8_Witness ==
    /\ pc = "uh_done" /\ runs = 2
    /\ Cardinality(TagsNamed(templates[Page], "form")) = 2
    /\ HoldsMarkers(templates[Page], 2)

\* C9: in one run every form gets exactly one csrf marker, as its first
\* child, and the body exactly one async script, as its last child, appended
\* once all forms have their marker.
C9_OneCsrfOneScript ==
    /\ AfterFirstRun =>
           /\ \A i \in TagsNamed(soup.doc, "form") :
                  /\ Head(After(i).contents) = TextItem(<<"{% csrf_token %}">>)
                  /\ Markers(After(i).contents, "{% csrf_token %}") = 1
           /\ \A i \in TagsNamed(soup.doc, "body") :
                  /\ AsyncScripts(soup.doc, After(i).contents) = 1
                  /\ After(i).contents[Len(After(i).contents)] = TagItem(Len(soup.doc.tags))
           /\ Len(soup.doc.tags) = Len(doc0.tags) + 1
    /\ (pc \in {"uh_pass", "uh_save"} /\ runs = 0
            /\ Len(soup.doc.tags) > Len(doc0.tags)) =>
           \A i \in TagsNamed(soup.doc, "form") :
               Markers(After(i).contents, "{% csrf_token %}") = 1

C9_Witness ==
    /\ AfterFirstRun
    /\ Cardinality(TagsNamed(doc0, "form")) = 2
    /\ Cardinality(TagsNamed(doc0, "body")) = 1

----------------------------------------------------------------------------
(* Claims about the order of the passes *)

\* The outcome of the passes in the order of the code.
InCodeOrder == ApplyPasses(PassOrder, [err |-> "", doc |-> doc0], target_app)

Occurrences(items, x) == Cardinality({i \in 1..Len(items) : items[i] = x})

SameChildren(c, d) ==
    /\ Len(c) = Len(d)
    /\ \A i \in 1..Len(c) : Occurrences(c, c[i]) = Occurrences(d, c[i])

\* The same document up to the position of the inserted markers.
SameUpToPosition(d, e) ==
    /\ Len(d.tags) = Len(e.tags)
    /\ SameChildren(d.root, e.root)
    /\ \A i \in 1..Len(d.tags) :
           /\ d.tags[i].name = e.tags[i].name
           /\ d.tags[i].attrs = e.tags[i].attrs
           /\ SameChildren(d.tags[i].contents, e.tags[i].contents)

SameOutcome(st, fixed) ==
    /\ (st.err = "") = (fixed.err = "")
    /\ st.err = "" => SameUpToPosition(st.doc, fixed.doc)

\* C5 as stated: the passes applied in any order give the outcome of the
\* order of the code.
C5_AnyOrder ==
    pc \in {"ro_done", "ro_raised"} => SameOutcome(soup, InCodeOrder)

\* An img that the data-for pass gives the src the image pass reads.
SrcFromDataFor(t) == t.name = "img" /\ HasFieldDataFor(t) /\ ~Has(t, "src")

\* C5 amended: the same, for the documents in which every img carrying a
\* data-for attribute without a space has a src attribute.
C5_AnyOrderGivenSrc ==
    (pc \in {"ro_done", "ro_raised"} /\ \A i \in OrigTags : ~SrcFromDataFor(Before(i)))
        => SameOutcome(soup, InCodeOrder)

C5_Witness ==
    /\ pc = "ro_done" /\ reordered
    /\ \E i \in OrigTags : IsStaticImg(Before(i)) /\ HasFieldDataFor(Before(i))
    /\ \E i \in OrigTags : IsStaticLink(Before(i))
    /\ SameOutcome(soup, InCodeOrder)

----------------------------------------------------------------------------
(* The import run: __main__ and the file moves *)

Categories == {"js", "css", "images", "documents"}

\* The statements of __main__, in order.
Statements ==
    <<"check", "unpack", "move_js", "move_css", "move_images", "move_documents",
      "move_html", "update_htmls", "trash_work", "prompt", "done">>

Rank(stmt) == CHOOSE i \in 1..Len(Statements) : Statements[i] = stmt
CallOf(c) == "move_" \o c

Without(f, x) == [y \in DOMAIN f \ {x} |-> f[y]]

\* The orders in which os.listdir may list a set of names.
Listings(S) ==
    {o \in [1..Cardinality(S) -> S] : \A i, j \in 1..Cardinality(S) : o[i] = o[j] => i = j}

NoDir == [present |-> FALSE, entries |-> <<>>]

\* os.rename(src, dst): the exception it raises, "" for none. kind is the
\* source's ("file" or "dir"), at what is at dst ("none", "file", "emptydir"
\* or "dir"). A destination entry is [kind, from, over]: from is "export" for
\* an entry moved in and "old" for one that was there, over whether it took
\* the place of an entry of its name.
RenameError(plat, kind, at) ==
    IF at = "none" THEN ""
    ELSE IF plat = "nt" THEN "FileExistsError"
    ELSE IF kind = "file" THEN (IF at = "file" THEN "" ELSE "IsADirectoryError")
    ELSE IF at = "file" THEN "NotADirectoryError"
    ELSE IF at = "emptydir" THEN ""
    ELSE "OSError"

At(d, name) == IF name \in DOMAIN d.entries THEN d.entries[name].kind ELSE "none"

\* The loop of move_static_file over the listing: each entry is renamed into
\* the destination and recorded; an exception of os.rename ends the loop.
RECURSIVE MoveLoop(_, _, _, _)
MoveLoop(fs, c, listing, plat) ==
    IF listing = <<>> \/ fs.exc # "" THEN fs
    ELSE LET file == Head(listing)
             kind == fs.work[c].entries[file]
             error == RenameError(plat, kind, At(fs.dest[c], file))
         IN IF error # "" THEN [fs EXCEPT !.exc = error]
            ELSE MoveLoop(
                     [fs EXCEPT !.work[c].entries = Without(@, file),
                                !.dest[c].entries = With(@, file,
                                    [kind |-> kind, from |-> "export",
                                     over |-> file \in DOMAIN @]),
                                !.static_files[c] = Append(@, file),
                                !.fsops = @ \cup {"rename"}],
                     c, Tail(listing), plat)

\* Mutant: the except clause catches every OSError of the loop.
MoveStaticCatchAll(fs, c, listing, plat, tkind) ==
    IF tkind # "dir" THEN [fs EXCEPT !.exc = "NotADirectoryError"]
    ELSE LET made == [fs EXCEPT !.dest[c].present = TRUE,
                                !.fsops = IF fs.dest[c].present THEN @
                                          ELSE @ \cup {"makedirs"}]
         IN IF ~fs.work[c].present THEN made
            ELSE [MoveLoop(made, c, listing, plat) EXCEPT !.exc = ""]

\* move_static_file(work_dir, target_app, c) on the files fs, os.listdir
\* giving listing when the source directory is there.
MoveStatic(fs, c, listing, plat, tkind) ==
    IF tkind # "dir" THEN [fs EXCEPT !.exc = "NotADirectoryError"]
    ELSE LET made == [fs EXCEPT !.dest[c].present = TRUE,
                                !.fsops = IF fs.dest[c].present THEN @
                                          ELSE @ \cup {"makedirs"}]
         IN IF ~fs.work[c].present THEN made
            ELSE MoveLoop(made, c, listing, plat)

Files ==
    [work |-> work, dest |-> dest, static_files |-> static_files,
     fsops |-> fsops, exc |-> exc]

htmlVars == <<soup, doc0, runs, done, reordered>>

\* if not Path(target_app).exists(): raise FileNotFoundError(...)
CheckTarget ==
    /\ pc = "check" /\ exc = ""
    /\ IF targetKind = "missing"
       THEN exc' = "FileNotFoundError" /\ pc' = pc
       ELSE exc' = exc /\ pc' = "unpack"
    /\ UNCHANGED <<target_app, targetKind, archive, platform, work, workHtml,
                   dest, static_files, html_paths, templates, k, fsops, htmlVars>>

\* shutil.unpack_archive(webflow_exported_assets, working_folder)
Unpack ==
    /\ pc = "unpack" /\ exc = ""
    /\ IF archive.ok
       THEN /\ work' = archive.cats
            /\ workHtml' = archive.html
            /\ fsops' = fsops \cup {"unpack"}
            /\ pc' = "move_js"
            /\ exc' = exc
       ELSE /\ exc' = "ReadError"
            /\ UNCHANGED <<work, workHtml, fsops, pc>>
    /\ UNCHANGED <<target_app, targetKind, archive, platform, dest, static_files,
                   html_paths, templates, k, htmlVars>>

\* importer.move_static_file(working_folder, target_app, c)
MoveStaticFile(c) ==
    /\ pc = CallOf(c) /\ exc = ""
    /\ \E listing \in Listings(DOMAIN work[c].entries) :
          LET fs == MoveStatic(Files, c, listing, platform, targetKind)
          IN /\ work' = fs.work
             /\ dest' = fs.dest
             /\ static_files' = fs.static_files
             /\ fsops' = fs.fsops
             /\ exc' = fs.exc
             /\ pc' = IF fs.exc # "" THEN pc ELSE Statements[Rank(pc) + 1]
    /\ UNCHANGED <<target_app, targetKind, archive, platform, workHtml,
                   html_paths, templates, k, htmlVars>>

EndsWithHtml(file) == file \in {"index.html", "about.html", "contact.html"}

TemplatePath(app, file) == app \o "/templates/" \o file

\* The loop of move_html_files over the listing: the html files are renamed
\* into the templates directory and their new paths recorded.
RECURSIVE MoveHtmlLoop(_, _, _)
MoveHtmlLoop(st, listing, app) ==
    IF listing = <<>> THEN st
    ELSE LET file == Head(listing) IN
         IF EndsWithHtml(file)
         THEN MoveHtmlLoop(
                  [workHtml |-> Without(st.workHtml, file),
                   templates |-> With(st.templates, TemplatePath(app, file),
                                      st.workHtml[file]),
                   html_paths |-> Append(st.html_paths, TemplatePath(app, file))],
                  Tail(listing), app)
         ELSE MoveHtmlLoop(st, Tail(listing), app)

\* importer.move_html_files(working_folder, target_app)
MoveHtmlFiles ==
    /\ pc = "move_html" /\ exc = ""
    /\ \E listing \in Listings(DOMAIN workHtml) :
          LET st == MoveHtmlLoop([workHtml |-> workHtml, templates |-> templates,
                                  html_paths |-> html_paths], listing, target_app)
          IN /\ workHtml' = st.workHtml
             /\ templates' = st.templates
             /\ html_paths' = st.html_paths
             /\ fsops' = fsops \cup {"makedirs"}
                             \cup (IF st.html_paths # <<>> THEN {"rename"} ELSE {})
    /\ pc' = "update_htmls"
    /\ UNCHANGED <<target_app, targetKind, archive, platform, work, dest,
                   static_files, k, exc, htmlVars>>

\* Mutant: a page that update_html raises on is skipped.
UpdateHtmlsIsolated ==
    /\ pc = "update_htmls" /\ exc = ""
    /\ IF k <= Len(html_paths)
       THEN LET r == UpdateHtml(templates[html_paths[k]], target_app)
            IN /\ templates' = [templates EXCEPT ![html_paths[k]] = r.doc]
               /\ k' = k + 1
               /\ UNCHANGED <<exc, pc>>
       ELSE pc' = "trash_work" /\ UNCHANGED <<templates, k, exc>>
    /\ UNCHANGED <<target_app, targetKind, archive, platform, work, workHtml,
                   dest, static_files, html_paths, fsops, htmlVars>>

\* importer.update_htmls(target_app): one turn of its loop over html_paths,
\* or its return once the paths are through.
UpdateHtmls ==
    /\ pc = "update_htmls" /\ exc = ""
    /\ IF k <= Len(html_paths)
       THEN LET r == UpdateHtml(templates[html_paths[k]], target_app)
            IN IF r.err # ""
               THEN exc' = r.err /\ UNCHANGED <<templates, k, pc>>
               ELSE /\ templates' = [templates EXCEPT ![html_paths[k]] = r.doc]
                    /\ k' = k + 1
                    /\ UNCHANGED <<exc, pc>>
       ELSE pc' = "trash_work" /\ UNCHANGED <<templates, k, exc>>
    /\ UNCHANGED <<target_app, targetKind, archive, platform, work, workHtml,
                   dest, static_files, html_paths, fsops, htmlVars>>

\* send2trash(working_folder)
TrashWork ==
    /\ pc = "trash_work" /\ exc = ""
    /\ work' = [c \in Categories |-> NoDir]
    /\ workHtml' = <<>>
    /\ fsops' = fsops \cup {"trash_work"}
    /\ pc' = "prompt"
    /\ UNCHANGED <<target_app, targetKind, archive, platform, dest, static_files,
                   html_paths, templates, k, exc, htmlVars>>

\* delete_zip = input(...); if delete_zip == 'y': send2trash(archive)
Prompt ==
    /\ pc = "prompt" /\ exc = ""
    /\ \E delete_zip \in {"y", "n"} :
          fsops' = IF delete_zip = "y" THEN fsops \cup {"trash_archive"} ELSE fsops
    /\ pc' = "done"
    /\ UNCHANGED <<target_app, targetKind, archive, platform, work, workHtml, dest,
                   static_files, html_paths, templates, k, exc, htmlVars>>

Next ==
    \/ CheckTarget
    \/ Unpack
    \/ \E c \in Categories : MoveStaticFile(c)
    \/ MoveHtmlFiles
    \/ UpdateHtmls
    \/ TrashWork
    \/ Prompt

\* The pages of an export: one that update_html rewrites, one with a link
\* that has no href, one without a body.
GoodPage == BuildDoc([Plain EXCEPT !.link = "css", !.img = "images", !.forms = 1])
NoHrefPage == BuildDoc([Plain EXCEPT !.link = "nohref"])
NoBodyPage == BuildDoc([Plain EXCEPT !.link = "css", !.body = FALSE])
Pages == {GoodPage, NoHrefPage, NoBodyPage}

PageNames == <<"index.html", "about.html", "contact.html">>
EntryNames == <<"a.bin", "b.bin", "c.bin">>
First(names, n) == {names[i] : i \in 1..n}

PartialFunctions(S, T) == UNION {[D -> T] : D \in SUBSET S}

\* The top level of an export: some html pages and a file that is none.
TopLevels ==
    {With(f, "robots.txt", [tags |-> <<>>, root |-> <<>>]) :
        f \in PartialFunctions(First(PageNames, MaxPages), Pages)}

SourceDirs ==
    {NoDir} \cup {[present |-> TRUE, entries |-> e] :
                     e \in PartialFunctions(First(EntryNames, MaxEntries), {"file", "dir"})}

NoDest == [present |-> FALSE, entries |-> <<>>]

DestDirs ==
    {NoDest} \cup {[present |-> TRUE, entries |-> e] :
                      e \in PartialFunctions(First(EntryNames, MaxEntries),
                                             [kind : {"file", "emptydir", "dir"},
                                              from : {"old"}, over : {FALSE}])}

OneFile == [present |-> TRUE, entries |-> Attr("a.bin", "file")]

\* Exports of any make-up of categories and pages, imported into an app
\* that holds no static files yet.
WholeExports ==
    /\ platform = "posix"
    /\ dest = [c \in Categories |-> NoDest]
    /\ archive \in [ok : BOOLEAN, cats : [Categories -> {NoDir, OneFile}],
                    html : TopLevels]

\* Exports of one category, imported into an app that may hold entries of
\* the same names.
OneCategoryExports ==
    /\ platform \in {"posix", "nt"}
    /\ \E c \in Categories :
          /\ dest \in {[x \in Categories |-> IF x = c THEN d ELSE NoDest] :
                          d \in DestDirs}
          /\ archive \in {[ok |-> TRUE,
                           cats |-> [x \in Categories |-> IF x = c THEN d ELSE NoDir],
                           html |-> With(<<>>, "index.html", GoodPage)] :
                             d \in SourceDirs}

Init ==
    /\ target_app \in TargetApps
    /\ targetKind \in {"missing", "file", "dir"}
    /\ WholeExports \/ OneCategoryExports
    /\ pc = "check"
    /\ exc = ""
    /\ work = [c \in Categories |-> NoDir]
    /\ workHtml = <<>>
    /\ static_files = [c \in Categories |-> <<>>]
    /\ html_paths = <<>>
    /\ templates = <<>>
    /\ k = 1
    /\ fsops = {}
    /\ soup = NoSoup
    /\ doc0 = NoSoup.doc
    /\ runs = 0
    /\ done = {}
    /\ reordered = FALSE

Spec == Init /\ [][Next]_vars

----------------------------------------------------------------------------
(* Claims about the import run *)

\* __main__ is past statement stmt: the statement returned.
Past(stmt) == Rank(pc) > Rank(stmt)

\* C2: once move_static_file has returned for a category whose source
\* directory is present, every entry of that directory is at the destination
\* and none is left at its source path, whatever the destination held.
C2_MoveExhaustive ==
    \A c \in Categories :
        (Past(CallOf(c)) /\ archive.cats[c].present) =>
            \A file \in DOMAIN archive.cats[c].entries :
                /\ file \in DOMAIN dest[c].entries
                /\ dest[c].entries[file].from = "export"
                /\ dest[c].entries[file].kind = archive.cats[c].entries[file]
                /\ file \notin DOMAIN work[c].entries

C2_Witness ==
    \E c \in Categories :
        /\ pc = Statements[Rank(CallOf(c)) + 1]
        /\ Cardinality(DOMAIN archive.cats[c].entries) = 2
        /\ \E file \in DOMAIN dest[c].entries : dest[c].entries[file].over
        /\ \A file \in DOMAIN archive.cats[c].entries :
               file \in DOMAIN dest[c].entries /\ file \notin DOMAIN work[c].entries

\* C6: a run whose target is no usable directory aborts before any change
\* to the filesystem.
C6_NoMutationBeforeAbort ==
    (targetKind # "dir" /\ exc # "") => fsops = {}

C6_Witness ==
    targetKind = "missing" /\ exc = "FileNotFoundError" /\ fsops = {}

\* C7: move_static_file for a category whose source directory is absent
\* raises nothing, moves and records nothing, and the run goes on.
C7_AbsentCategoryIsNoOp ==
    \A c \in Categories :
        /\ (pc = CallOf(c) /\ exc # "") => work[c].present
        /\ (Past(CallOf(c)) /\ ~archive.cats[c].present) =>
               /\ static_files[c] = <<>>
               /\ \A file \in DOMAIN dest[c].entries : dest[c].entries[file].from = "old"

C7_Witness ==
    /\ pc = "move_css" /\ exc = ""
    /\ ~archive.cats["js"].present /\ archive.cats["css"].present
    /\ static_files["js"] = <<>>

\* The file of the export that became the template at path.
Exported(path) ==
    archive.html[CHOOSE file \in DOMAIN archive.html :
                     TemplatePath(target_app, file) = path]

Aborted == pc = "update_htmls" /\ exc # ""

\* C10: when update_html raises on the k-th path the run ends there: the
\* documents before it are rewritten and saved, it and those after it are as
\* they were moved, and the cleanup is never run; so the cleanup is reached
\* only when update_html raised on no page.
C10_NoIsolation ==
    /\ Aborted =>
           /\ k <= Len(html_paths)
           /\ UpdateHtml(Exported(html_paths[k]), target_app).err = exc
           /\ \A j \in 1..Len(html_paths) :
                  IF j < k
                  THEN HoldsMarkers(templates[html_paths[j]], 1)
                  ELSE templates[html_paths[j]] = Exported(html_paths[j])
           /\ fsops \cap {"trash_work", "trash_archive"} = {}
           /\ ~ENABLED Next
    /\ Past("update_htmls") =>
           \A j \in 1..Len(html_paths) :
               UpdateHtml(Exported(html_paths[j]), target_app).err = ""

C10_Witness ==
    /\ Aborted
    /\ k = 2 /\ Len(html_paths) = 2
    /\ HoldsMarkers(templates[html_paths[1]], 1)
    /\ templates[html_paths[2]] = Exported(html_paths[2])

====
